---- MODULE Spec2Model ----
(***************************************************************************)
(* A model of the WIT document formatter of vscode-wit (src/formatter.ts): *)
(* the line rewriter (formatLine and its per-construct rules), the indent  *)
(* tracker of formatWitContent (base level plus the tuple-alias and the    *)
(* function-parameter continuations) and the host entry point              *)
(* provideDocumentFormattingEdits.                                         *)
(*                                                                         *)
(* Text is a TLA+ string; a character is a string of length 1.  A regular  *)
(* expression of the source is a sequence of pattern elements, matched     *)
(* with JavaScript's leftmost, greedy, backtracking semantics.             *)
(***************************************************************************)
EXTENDS Integers, Sequences, FiniteSets, TLC

(***************************************************************************)
(* Strings                                                                 *)
(***************************************************************************)
At(s, i) == SubSeq(s, i, i)

From(s, i) == SubSeq(s, i, Len(s))

CharSet(s) == {At(s, i) : i \in 1..Len(s)}

\* The characters JavaScript's \s and String.prototype.trim treat as white
\* space, restricted to the ones a TLA+ string can spell.
Ws == {" ", "\t", "\n", "\r", "\f"}

Alpha == CharSet("abcdefghijklmnopqrstuvwxyzABCDEFGHIJKLMNOPQRSTUVWXYZ")

Digit == CharSet("0123456789")

\* \w
Word == Alpha \cup Digit \cup {"_"}

RECURSIVE Repeat(_, _)
\* String.prototype.repeat for a count >= 0 (a negative count throws, which
\* the callers model before they get here).
Repeat(s, n) == IF n <= 0 THEN "" ELSE s \o Repeat(s, n - 1)

startsWith(s, p) == Len(p) <= Len(s) /\ SubSeq(s, 1, Len(p)) = p

endsWith(s, p) == Len(p) <= Len(s) /\ SubSeq(s, Len(s) - Len(p) + 1, Len(s)) = p

includes(s, p) == \E i \in 1..(Len(s) - Len(p) + 1) : SubSeq(s, i, i + Len(p) - 1) = p

RECURSIVE TrimStart(_)
TrimStart(s) == IF s # "" /\ At(s, 1) \in Ws THEN TrimStart(From(s, 2)) ELSE s

RECURSIVE TrimEnd(_)
TrimEnd(s) ==
    IF s # "" /\ At(s, Len(s)) \in Ws THEN TrimEnd(SubSeq(s, 1, Len(s) - 1)) ELSE s

\* String.prototype.trim
trim(s) == TrimEnd(TrimStart(s))

\* (s.match(/c/g) || []).length
CountChar(s, c) == Cardinality({i \in 1..Len(s) : At(s, i) = c})

RECURSIVE join(_, _)
\* Array.prototype.join
join(xs, sep) ==
    IF Len(xs) = 0 THEN ""
    ELSE IF Len(xs) = 1 THEN xs[1]
    ELSE xs[1] \o sep \o join(Tail(xs), sep)

RECURSIVE FirstNewline(_, _)
\* Index of the first "\n" of s at or after i, or 0.
FirstNewline(s, i) ==
    IF i > Len(s) THEN 0
    ELSE IF At(s, i) = "\n" THEN i
    ELSE FirstNewline(s, i + 1)

RECURSIVE splitLines(_)
\* content.split(/\r?\n/): every "\n" separates, and takes the "\r" right
\* before it with it.  The empty string splits into one empty line.
splitLines(s) ==
    LET p == FirstNewline(s, 1) IN
    IF p = 0 THEN <<s>>
    ELSE LET q == IF p > 1 /\ At(s, p - 1) = "\r" THEN p - 2 ELSE p - 1
         IN  <<SubSeq(s, 1, q)>> \o splitLines(From(s, p + 1))

(***************************************************************************)
(* Regular expressions                                                     *)
(***************************************************************************)
\* Pattern elements.  "one", "star", "plus" and "opt" carry a character
\* class cs, negated when neg; "bol", "eol" and "wb" are ^, $ and \b.
Cls(k, cs, neg) == <<[k |-> k, cs |-> cs, neg |-> neg]>>

Lit(s) == [i \in 1..Len(s) |-> [k |-> "one", cs |-> {At(s, i)}, neg |-> FALSE]]

Bol == Cls("bol", {}, FALSE)

Eol == Cls("eol", {}, FALSE)

WordBoundary == Cls("wb", {}, FALSE)

WsStar == Cls("star", Ws, FALSE)

WsPlus == Cls("plus", Ws, FALSE)

\* . matches everything but a line terminator
AnyStar == Cls("star", {"\n", "\r"}, TRUE)

InClass(c, e) == (c \in e.cs) # e.neg

RECURSIVE RunEnd(_, _, _)
\* The position after the longest run of class characters starting at i.
RunEnd(s, i, e) ==
    IF i <= Len(s) /\ InClass(At(s, i), e) THEN RunEnd(s, i + 1, e) ELSE i

IsWordAt(s, i) == i >= 1 /\ i <= Len(s) /\ At(s, i) \in Word

RECURSIVE MatchFrom(_, _, _, _)
RECURSIVE Backtrack(_, _, _, _, _)
\* The position after the match of pat[j..] starting at position i of s
\* that a backtracking matcher finds first, or 0 when there is none.
MatchFrom(s, i, pat, j) ==
    IF j > Len(pat) THEN i
    ELSE LET e == pat[j] IN
         CASE e.k = "one" ->
                IF i <= Len(s) /\ InClass(At(s, i), e)
                THEN MatchFrom(s, i + 1, pat, j + 1) ELSE 0
           [] e.k = "star" -> Backtrack(s, i, RunEnd(s, i, e), pat, j + 1)
           [] e.k = "plus" -> Backtrack(s, i + 1, RunEnd(s, i, e), pat, j + 1)
           [] e.k = "opt" ->
                Backtrack(s, i, IF RunEnd(s, i, e) > i THEN i + 1 ELSE i, pat, j + 1)
           [] e.k = "bol" -> IF i = 1 THEN MatchFrom(s, i, pat, j + 1) ELSE 0
           [] e.k = "eol" -> IF i = Len(s) + 1 THEN MatchFrom(s, i, pat, j + 1) ELSE 0
           [] e.k = "wb" ->
                IF IsWordAt(s, i - 1) # IsWordAt(s, i)
                THEN MatchFrom(s, i, pat, j + 1) ELSE 0

\* Greedy: the longest run first, then shorter ones down to lo.
Backtrack(s, lo, hi, pat, j) ==
    IF hi < lo THEN 0
    ELSE LET r == MatchFrom(s, hi, pat, j) IN
         IF r # 0 THEN r ELSE Backtrack(s, lo, hi - 1, pat, j)

RECURSIVE FindFrom(_, _, _)
\* The start of the leftmost match of pat at or after position i, or 0.
FindFrom(s, i, pat) ==
    IF i > Len(s) + 1 THEN 0
    ELSE IF MatchFrom(s, i, pat, 1) # 0 THEN i
    ELSE FindFrom(s, i + 1, pat)

\* RegExp.prototype.test
test(pat, s) == FindFrom(s, 1, pat) # 0

\* String.prototype.replace with a pattern without the g flag
replaceFirst(s, pat, repl) ==
    LET i == FindFrom(s, 1, pat) IN
    IF i = 0 THEN s
    ELSE SubSeq(s, 1, i - 1) \o repl \o From(s, MatchFrom(s, i, pat, 1))

RECURSIVE replaceGlobal(_, _, _)
\* String.prototype.replace with a g pattern (after an empty match the
\* scan moves on by one character).
replaceGlobal(s, pat, repl) ==
    LET i == FindFrom(s, 1, pat) IN
    IF i = 0 THEN s
    ELSE LET e == MatchFrom(s, i, pat, 1) IN
         IF e > i
         THEN SubSeq(s, 1, i - 1) \o repl \o replaceGlobal(From(s, e), pat, repl)
         ELSE IF i > Len(s) THEN s \o repl
         ELSE SubSeq(s, 1, i - 1) \o repl \o At(s, i)
                  \o replaceGlobal(From(s, i + 1), pat, repl)

Rule(pat, repl) == [pat |-> pat, repl |-> repl, g |-> FALSE]

RuleG(pat, repl) == [pat |-> pat, repl |-> repl, g |-> TRUE]

RECURSIVE replaceAll(_, _)
\* WitFormatter.replaceAll: the rules in order, each on the result of the
\* one before.
replaceAll(line, replacements) ==
    IF Len(replacements) = 0 THEN line
    ELSE LET r == Head(replacements) IN
         replaceAll(IF r.g THEN replaceGlobal(line, r.pat, r.repl)
                    ELSE replaceFirst(line, r.pat, r.repl),
                    Tail(replacements))

(***************************************************************************)
(* The line rewriter                                                       *)
(***************************************************************************)
\* line.replace(/\s*;\s*$/, ";")
ensureSemicolon(line) == replaceFirst(line, WsStar \o Lit(";") \o WsStar \o Eol, ";")

\* line.replace(/\s+/g, " ")
collapseSpaces(line) == replaceGlobal(line, WsPlus, " ")

\* isOpeningBrace that knows only the interface and world blocks.
isOpeningBraceNamedOnly(line) ==
    /\ endsWith(line, "{") /\ ~includes(line, "}")
    /\ startsWith(line, "interface ") \/ startsWith(line, "world ")

\* line.endsWith("{") && !line.includes("}")
isOpeningBrace(line) == endsWith(line, "{") /\ ~includes(line, "}")

TypeDeclKeywords == {"record", "variant", "enum", "flags", "resource"}

\* /^(record|variant|enum|flags|resource)\s+/
isTypeDecl(line) == \E kw \in TypeDeclKeywords : test(Bol \o Lit(kw) \o WsPlus, line)

\* /^[a-zA-Z][\w-]*\s*:\s*func\b/ || /:\s*func\b/ || /->/, never for an
\* import or export line
isFuncDecl(line) ==
    IF startsWith(line, "import ") \/ startsWith(line, "export ") THEN FALSE
    ELSE \/ test(Bol \o Cls("one", Alpha, FALSE) \o Cls("star", Word \cup {"-"}, FALSE)
                     \o WsStar \o Lit(":") \o WsStar \o Lit("func") \o WordBoundary, line)
         \/ test(Lit(":") \o WsStar \o Lit("func") \o WordBoundary, line)
         \/ test(Lit("->"), line)

\* /^[a-zA-Z][a-zA-Z0-9-]*\s*[:,(]/ || /^[a-zA-Z][a-zA-Z0-9-]*\s*,?\s*$/
isFieldDecl(line) ==
    LET t == trim(line)
        ident == Bol \o Cls("one", Alpha, FALSE)
                     \o Cls("star", Alpha \cup Digit \cup {"-"}, FALSE) \o WsStar
    IN  \/ test(ident \o Cls("one", {":", ",", "("}, FALSE), t)
        \/ test(ident \o Cls("opt", {","}, FALSE) \o WsStar \o Eol, t)

formatPackage(line) == ensureSemicolon(collapseSpaces(line))

\* collapseSpaces(line).replace(/\s*{\s*$/, " {")
formatNamedBlock(line) ==
    replaceFirst(collapseSpaces(line), WsStar \o Lit("{") \o WsStar \o Eol, " {")

\* formatFunc without the three rules for the arrow.
formatFuncNoArrow(line) ==
    ensureSemicolon(replaceAll(line, <<
        Rule(Lit(":func"), ": func"),
        Rule(Lit(":") \o WsStar \o Lit("func"), ": func"),
        Rule(Lit("func") \o WsStar \o Lit("("), "func("),
        RuleG(Lit(",") \o WsStar, ", "),
        RuleG(Lit(":") \o WsStar, ": ") >>))

formatFunc(line) ==
    ensureSemicolon(replaceAll(line, <<
        Rule(Lit(":func"), ": func"),
        Rule(Lit(":") \o WsStar \o Lit("func"), ": func"),
        Rule(Lit("func") \o WsStar \o Lit("("), "func("),
        Rule(Lit(")") \o WsStar \o Lit("->") \o WsStar, ") -> "),
        Rule(Lit(")->") \o WsStar, ") -> "),
        Rule(Lit(")->"), ") -> "),
        RuleG(Lit(",") \o WsStar, ", "),
        RuleG(Lit(":") \o WsStar, ": ") >>))

\* line.replace(/^(import|export)\s+/, "$1 "), then the function rules when
\* the line holds ": func" or ":func"
formatImportExport(line) ==
    LET base == IF test(Bol \o Lit("import") \o WsPlus, line)
                THEN replaceFirst(line, Bol \o Lit("import") \o WsPlus, "import ")
                ELSE replaceFirst(line, Bol \o Lit("export") \o WsPlus, "export ")
    IN  IF includes(base, ": func") \/ includes(base, ":func") THEN formatFunc(base)
        ELSE ensureSemicolon(base)

formatUse(line) ==
    ensureSemicolon(replaceAll(line, <<
        Rule(Bol \o Lit("use") \o WsPlus, "use "),
        Rule(WsPlus \o Lit("as") \o WsPlus, " as "),
        Rule(WsPlus \o Lit("from") \o WsPlus, " from ") >>))

formatTypeAlias(line) ==
    ensureSemicolon(replaceAll(line, <<
        Rule(Bol \o Lit("type") \o WsPlus, "type "),
        Rule(WsStar \o Lit("=") \o WsStar, " = ") >>))

\* formatField with a last rule that takes the trailing comma away with
\* the white space after it.
formatFieldNoTrailingComma(line) ==
    replaceAll(line, <<
        RuleG(Lit(":") \o WsStar, ": "),
        RuleG(Lit(",") \o WsStar, ", "),
        Rule(Lit(",") \o WsStar \o Eol, "") >>)

formatField(line) ==
    replaceAll(line, <<
        RuleG(Lit(":") \o WsStar, ": "),
        RuleG(Lit(",") \o WsStar, ", "),
        Rule(Lit(",") \o WsStar \o Eol, ",") >>)

\* formatLine with the function test ahead of the type-alias test.
formatLineFuncFirst(line) ==
    IF startsWith(line, "package ") THEN formatPackage(line)
    ELSE IF startsWith(line, "interface ") THEN formatNamedBlock(line)
    ELSE IF startsWith(line, "world ") THEN formatNamedBlock(line)
    ELSE IF isTypeDecl(line) THEN formatNamedBlock(line)
    ELSE IF isFuncDecl(line) THEN formatFunc(line)
    ELSE IF startsWith(line, "type ") /\ includes(line, "=") THEN formatTypeAlias(line)
    ELSE IF startsWith(line, "import ") \/ startsWith(line, "export ")
         THEN formatImportExport(line)
    ELSE IF startsWith(line, "use ") THEN formatUse(line)
    ELSE IF isFieldDecl(line) THEN formatField(line)
    ELSE line

\* The construct kinds in the order formatLine tries them; the first that
\* matches decides the rewrite.
formatLine(line) ==
    IF startsWith(line, "package ") THEN formatPackage(line)
    ELSE IF startsWith(line, "interface ") THEN formatNamedBlock(line)
    ELSE IF startsWith(line, "world ") THEN formatNamedBlock(line)
    ELSE IF isTypeDecl(line) THEN formatNamedBlock(line)
    ELSE IF startsWith(line, "type ") /\ includes(line, "=") THEN formatTypeAlias(line)
    ELSE IF isFuncDecl(line) THEN formatFunc(line)
    ELSE IF startsWith(line, "import ") \/ startsWith(line, "export ")
         THEN formatImportExport(line)
    ELSE IF startsWith(line, "use ") THEN formatUse(line)
    ELSE IF isFieldDecl(line) THEN formatField(line)
    ELSE line

(***************************************************************************)
(* The formatter: state                                                    *)
(***************************************************************************)
VARIABLES
    document,               \* the text of the editor's document
    options,                \* the FormattingOptions of every call of the run
    pc,                     \* "idle", "loop", "formatted" or "threw"
    caller,                 \* who called formatWitContent: "provider" or "direct"
    content,                \* formatWitContent's argument
    lines,                  \* content.split(/\r?\n/)
    i,                      \* the loop index, 1-based (the code's i + 1)
    out,                    \* the lines emitted so far
    indentLevel,
    inMultiLineTupleAlias,
    aliasGenericDepth,
    inFuncParams,
    formatted,              \* what the last formatWitContent returned
    edits,                  \* what provideDocumentFormattingEdits returned
    emitted,                \* history: how each line of the pass was indented
    calls                   \* history: [content, result] of each finished call

\* WitSyntaxValidator and the asynchronous checks that run on it.
VARIABLES
    workspaceCheck,         \* the validator's flag
    diagnosticCollection,   \* uri -> the diagnostic of the uri, and who set it
    workspaceRuns,          \* the invocations of syntaxCheckWorkspace, in order
    fileChecks              \* the invocations of syntaxCheckCurrentFile, in order

\* isWasmComponentFile(filePath)
VARIABLES
    wasmFile,               \* the file at filePath
    wasmPc,                 \* "idle", "start", "header" or "done"
    wasmHeader,             \* what readWasmHeader returned
    isComponent             \* what isWasmComponentFile returned

\* wasmUtils: the module wit-bindgen-wasm and the calls of its helpers.
VARIABLES
    wasmModule,             \* the module variable: TRUE when set, FALSE when null
    defaultInvocations,     \* history: how many times module.default was invoked
    helperCalls             \* the calls of initializeWasm and of the helpers, in order

bindgenVars == <<wasmModule, defaultInvocations, helperCalls>>

validatorVars == <<workspaceCheck, diagnosticCollection, workspaceRuns, fileChecks>>

wasmVars == <<wasmFile, wasmPc, wasmHeader, isComponent>>

formatterVars == <<document, options, pc, caller, content, lines, i, out, indentLevel,
                   inMultiLineTupleAlias, aliasGenericDepth, inFuncParams, formatted,
                   edits, emitted, calls>>

vars == <<formatterVars, validatorVars, wasmVars, bindgenVars>>

locals == <<lines, i, out, indentLevel, inMultiLineTupleAlias, aliasGenericDepth,
            inFuncParams, emitted>>

Max(a, b) == IF a >= b THEN a ELSE b

\* const tabSize = options.tabSize ?? 2
DefaultTabSize == 2

tabSizeOf(o) == IF "tabSize" \in DOMAIN o THEN o.tabSize ELSE DefaultTabSize

\* const insertSpaces = options.insertSpaces !== false
insertSpacesOf(o) == ~("insertSpaces" \in DOMAIN o /\ o.insertSpaces = FALSE)

\* " ".repeat(tabSize) throws a RangeError for a negative count
indentUnitThrows(o) == insertSpacesOf(o) /\ tabSizeOf(o) < 0

\* indentUnit with a tab per column of tabSize when tabs are asked for.
indentUnitTabs(o) ==
    IF insertSpacesOf(o) THEN Repeat(" ", tabSizeOf(o)) ELSE Repeat("\t", tabSizeOf(o))

\* const indentUnit = insertSpaces ? " ".repeat(tabSize) : "\t"
indentUnit(o) == IF insertSpacesOf(o) THEN Repeat(" ", tabSizeOf(o)) ELSE "\t"

\* closeBrace put off until the line is out: a "}" keeps the level of the
\* block it closes.
closeBraceLate(trimmed, level) == level

\* closeBrace with the floor applied to the level before the decrement.
closeBraceFloorFirst(trimmed, level) ==
    IF startsWith(trimmed, "}") THEN Max(0, level) - 1 ELSE level

\* closeBrace without the floor at 0.
closeBraceUnclamped(trimmed, level) ==
    IF startsWith(trimmed, "}") THEN level - 1 ELSE level

\* if (/^\}/.test(trimmed)) indentLevel = Math.max(0, indentLevel - 1)
closeBrace(trimmed, level) ==
    IF startsWith(trimmed, "}") THEN Max(0, level - 1) ELSE level

\* /^\/\//.test(trimmed)
isLineComment(trimmed) == startsWith(trimmed, "//")

\* inMultiLineTupleAlias && aliasGenericDepth > 0 && !/^>>/.test(trimmed)
needsTupleExtra(trimmed, inAlias, depth) ==
    inAlias /\ depth > 0 /\ ~startsWith(trimmed, ">>")

\* needsFuncParamExtra without the exception for the line of the ")".
needsFuncParamExtraAll(trimmed, inParams) == inParams

\* inFuncParams && !/^\)/.test(trimmed)
needsFuncParamExtra(trimmed, inParams) == inParams /\ ~startsWith(trimmed, ")")

\* lookaheadActivates that looks at the very next line only, blank or not.
lookaheadNextLineOnly(ls, la) ==
    IF la > Len(ls) THEN TRUE ELSE ~startsWith(trim(ls[la]), "//")

RECURSIVE lookaheadActivates(_, _)
\* The lookahead loop after a line ending in "func(": skip the blank lines;
\* the first other line decides, and a "//" line there keeps the
\* continuation off.  la is 1-based.
lookaheadActivates(ls, la) ==
    IF la > Len(ls) THEN TRUE
    ELSE LET laTrim == trim(ls[la]) IN
         IF laTrim = "" THEN lookaheadActivates(ls, la + 1)
         ELSE ~startsWith(laTrim, "//")

\* nextInFuncParams that also ends the parameter list on a line that
\* closes a generic.
nextInFuncParamsCoupled(trimmed, inParams, ls, idx) ==
    IF ~inParams /\ endsWith(trimmed, "func(") THEN lookaheadActivates(ls, idx + 1)
    ELSE IF inParams /\ (startsWith(trimmed, ")") \/ startsWith(trimmed, ">")) THEN FALSE
    ELSE inParams

\* The value of inFuncParams after a content line.
nextInFuncParams(trimmed, inParams, ls, idx) ==
    IF ~inParams /\ endsWith(trimmed, "func(") THEN lookaheadActivates(ls, idx + 1)
    ELSE IF inParams /\ startsWith(trimmed, ")") THEN FALSE
    ELSE inParams

\* /^type\s+[^=]+=.*tuple<\s*$/
TupleAliasOpener ==
    Bol \o Lit("type") \o WsPlus \o Cls("plus", {"="}, TRUE) \o Lit("=")
        \o AnyStar \o Lit("tuple<") \o WsStar \o Eol

\* opens - closes of one line
genericBalance(trimmed) == CountChar(trimmed, "<") - CountChar(trimmed, ">")

\* nextAlias that leaves the continuation only at a depth of exactly 0.
nextAliasExactZero(trimmed, inAlias, depth) ==
    IF ~inAlias /\ test(TupleAliasOpener, trimmed)
    THEN <<TRUE, genericBalance(trimmed)>>
    ELSE IF inAlias
         THEN LET d == depth + genericBalance(trimmed) IN
              IF d = 0 THEN <<FALSE, d>> ELSE <<TRUE, d>>
         ELSE <<inAlias, depth>>

\* The values of <<inMultiLineTupleAlias, aliasGenericDepth>> after a
\* content line.
nextAlias(trimmed, inAlias, depth) ==
    IF ~inAlias /\ test(TupleAliasOpener, trimmed)
    THEN <<TRUE, genericBalance(trimmed)>>
    ELSE IF inAlias
         THEN LET d == depth + genericBalance(trimmed) IN
              IF d <= 0 THEN <<FALSE, d>> ELSE <<TRUE, d>>
         ELSE <<inAlias, depth>>

\* editsFor without the comparison: a replacement even for a formatted text.
editsForAlways(text, result) ==
    <<[start |-> 0, end |-> Len(text), newText |-> result]>>

\* provideDocumentFormattingEdits' result: nothing when the text is already
\* formatted, else one replacement of the whole text (offsets 0..length).
editsFor(text, result) ==
    IF result = text THEN <<>>
    ELSE <<[start |-> 0, end |-> Len(text), newText |-> result]>>

(***************************************************************************)
(* The formatter: operations                                               *)
(***************************************************************************)
\* freshState with the trackers kept in fields of the instance, so that a
\* call starts from what the call before left behind.
staleState(prev) == prev

\* let indentLevel = 0; let inMultiLineTupleAlias = false;
\* let aliasGenericDepth = 0; let inFuncParams = false;
\* prev holds what the call before left behind, which the code never reads.
freshState(prev) ==
    [indentLevel |-> 0, inMultiLineTupleAlias |-> FALSE,
     aliasGenericDepth |-> 0, inFuncParams |-> FALSE]

trackerState ==
    [indentLevel |-> indentLevel, inMultiLineTupleAlias |-> inMultiLineTupleAlias,
     aliasGenericDepth |-> aliasGenericDepth, inFuncParams |-> inFuncParams]

\* formatWitContent(c, options), up to the loop: the indent unit (which
\* throws for a negative tabSize), the split and the fresh locals.
Enter(c, who) ==
    /\ pc = "idle"
    /\ caller' = who
    /\ content' = c
    /\ IF indentUnitThrows(options)
       THEN /\ pc' = "threw"
            /\ UNCHANGED locals
       ELSE LET st == freshState(trackerState) IN
            /\ pc' = "loop"
            /\ lines' = splitLines(c)
            /\ i' = 1
            /\ out' = <<>>
            /\ emitted' = <<>>
            /\ indentLevel' = st.indentLevel
            /\ inMultiLineTupleAlias' = st.inMultiLineTupleAlias
            /\ aliasGenericDepth' = st.aliasGenericDepth
            /\ inFuncParams' = st.inFuncParams
    /\ UNCHANGED <<document, options, formatted, edits, calls>>
    /\ UNCHANGED <<validatorVars, wasmVars, bindgenVars>>

\* The editor asks for the document's formatting edits:
\* const text = document.getText(); this.formatWitContent(text, options)
provideDocumentFormattingEdits ==
    /\ ~edits.returned
    /\ calls = <<>>
    /\ Enter(document, "provider")

\* How many calls of formatWitContent a run of the model makes.
MaxCalls == 3

\* A direct call of the public formatWitContent on the same instance, with
\* the document's text or with what the call before returned.
formatWitContent ==
    /\ calls # <<>>
    /\ Len(calls) < MaxCalls
    /\ \E c \in {document, formatted} : Enter(c, "direct")

\* out.push(indentUnit.repeat(level + extras) + text), and on to the next
\* line; repeat throws a RangeError for a negative count.
Emit(level, tupleExtra, paramExtra, text) ==
    IF level + tupleExtra + paramExtra < 0
    THEN /\ pc' = "threw"
         /\ UNCHANGED <<out, emitted, i>>
    ELSE /\ pc' = pc
         /\ out' = Append(out, Repeat(indentUnit(options), level + tupleExtra + paramExtra)
                                   \o text)
         /\ emitted' = Append(emitted, [count |-> level + tupleExtra + paramExtra,
                                        tuple |-> tupleExtra, param |-> paramExtra])
         /\ i' = i + 1

\* BlankLine without the push: the blank line is dropped.
BlankLineSkipped ==
    /\ pc = "loop"
    /\ i <= Len(lines)
    /\ trim(lines[i]) = ""
    /\ i' = i + 1
    /\ UNCHANGED <<document, options, pc, caller, content, lines, out, emitted,
                   indentLevel, inMultiLineTupleAlias, aliasGenericDepth, inFuncParams,
                   formatted, edits, calls>>
    /\ UNCHANGED <<validatorVars, wasmVars, bindgenVars>>

\* if (trimmed === "") { out.push(""); continue; }
BlankLine ==
    /\ pc = "loop"
    /\ i <= Len(lines)
    /\ trim(lines[i]) = ""
    /\ out' = Append(out, "")
    /\ emitted' = Append(emitted, [count |-> 0, tuple |-> 0, param |-> 0])
    /\ i' = i + 1
    /\ UNCHANGED <<document, options, pc, caller, content, lines, indentLevel,
                   inMultiLineTupleAlias, aliasGenericDepth, inFuncParams,
                   formatted, edits, calls>>
    /\ UNCHANGED <<validatorVars, wasmVars, bindgenVars>>

\* CommentLine that counts the "<" and ">" of the comment into the depth
\* of an active alias.
CommentLineCounted ==
    /\ pc = "loop"
    /\ i <= Len(lines)
    /\ LET trimmed == trim(lines[i])
           level == closeBrace(trimmed, indentLevel)
           extra == IF needsTupleExtra(trimmed, inMultiLineTupleAlias, aliasGenericDepth)
                    THEN 1 ELSE 0
           alias == IF inMultiLineTupleAlias
                    THEN nextAlias(trimmed, inMultiLineTupleAlias, aliasGenericDepth)
                    ELSE <<inMultiLineTupleAlias, aliasGenericDepth>>
       IN  /\ trimmed # ""
           /\ isLineComment(trimmed)
           /\ Emit(level, extra, 0, trimmed)
           /\ indentLevel' = level
           /\ inMultiLineTupleAlias' = alias[1]
           /\ aliasGenericDepth' = alias[2]
    /\ UNCHANGED <<document, options, caller, content, lines, inFuncParams, formatted,
                   edits, calls>>
    /\ UNCHANGED <<validatorVars, wasmVars, bindgenVars>>

\* A "//" line: emitted as it is, after the indentation of the base level
\* and of the tuple-alias continuation.
CommentLine ==
    /\ pc = "loop"
    /\ i <= Len(lines)
    /\ LET trimmed == trim(lines[i])
           level == closeBrace(trimmed, indentLevel)
           extra == IF needsTupleExtra(trimmed, inMultiLineTupleAlias, aliasGenericDepth)
                    THEN 1 ELSE 0
       IN  /\ trimmed # ""
           /\ isLineComment(trimmed)
           /\ Emit(level, extra, 0, trimmed)
           /\ indentLevel' = level
    /\ UNCHANGED <<document, options, caller, content, lines, inMultiLineTupleAlias,
                   aliasGenericDepth, inFuncParams, formatted, edits, calls>>
    /\ UNCHANGED <<validatorVars, wasmVars, bindgenVars>>

\* Any other line: rewritten by formatLine, indented by the base level and
\* the continuations, and then the trackers move.
ContentLine ==
    /\ pc = "loop"
    /\ i <= Len(lines)
    /\ LET trimmed == trim(lines[i])
           level == closeBrace(trimmed, indentLevel)
           tupleExtra == IF needsTupleExtra(trimmed, inMultiLineTupleAlias, aliasGenericDepth)
                         THEN 1 ELSE 0
           paramExtra == IF needsFuncParamExtra(trimmed, inFuncParams) THEN 1 ELSE 0
           alias == nextAlias(trimmed, inMultiLineTupleAlias, aliasGenericDepth)
       IN  /\ trimmed # ""
           /\ ~isLineComment(trimmed)
           /\ Emit(level, tupleExtra, paramExtra, formatLine(trimmed))
           /\ IF level + tupleExtra + paramExtra < 0
              THEN /\ indentLevel' = level
                   /\ UNCHANGED <<inFuncParams, inMultiLineTupleAlias, aliasGenericDepth>>
              ELSE /\ indentLevel' = IF isOpeningBrace(trimmed) THEN level + 1 ELSE level
                   /\ inFuncParams' = nextInFuncParams(trimmed, inFuncParams, lines, i)
                   /\ inMultiLineTupleAlias' = alias[1]
                   /\ aliasGenericDepth' = alias[2]
    /\ UNCHANGED <<document, options, caller, content, lines, formatted, edits, calls>>
    /\ UNCHANGED <<validatorVars, wasmVars, bindgenVars>>

\* return out.join("\n")
formatReturn ==
    /\ pc = "loop"
    /\ i > Len(lines)
    /\ formatted' = join(out, "\n")
    /\ calls' = Append(calls, [content |-> content, result |-> join(out, "\n")])
    /\ pc' = IF caller = "provider" THEN "formatted" ELSE "idle"
    /\ UNCHANGED <<document, options, caller, content, locals, edits>>
    /\ UNCHANGED <<validatorVars, wasmVars, bindgenVars>>

\* if (formatted === text) return []; return [TextEdit.replace(fullRange, formatted)]
provideReturn ==
    /\ pc = "formatted"
    /\ edits' = [returned |-> TRUE, list |-> editsFor(document, formatted)]
    /\ pc' = "idle"
    /\ UNCHANGED <<document, options, caller, content, locals, formatted, calls>>
    /\ UNCHANGED <<validatorVars, wasmVars, bindgenVars>>

(***************************************************************************)
(* The syntax validator: operations                                        *)
(***************************************************************************)
\* diagnosticCollection.set(uri, [diagnostic])
set(collection, uri, diagnostic) ==
    [u \in DOMAIN collection \cup {uri} |-> IF u = uri THEN diagnostic ELSE collection[u]]

\* diagnosticCollection.delete(uri)
delete(collection, uri) ==
    [u \in DOMAIN collection \ {uri} |-> collection[u]]

\* clearDiagnostics(uri): if (!this.workspaceCheck) { delete(uri) }; the
\* collection after the call.
clearDiagnostics(uri) ==
    IF ~workspaceCheck THEN delete(diagnosticCollection, uri) ELSE diagnosticCollection

\* The .wit files of the workspace.
Uris == {"a.wit", "b.wit"}

\* What findFiles may return.
WorkspaceFiles == {<<>>, <<"a.wit">>, <<"a.wit", "b.wit">>}

\* How many times the command runs syntaxCheckWorkspace.
MaxWorkspaceChecks == 2

\* How many times a save or an open runs syntaxCheckCurrentFile.
MaxFileChecks == 2

\* What an awaited validate() comes back with: an errorInfo, null, or a
\* rejection.
Outcomes == {"error", "valid", "threw"}

\* The command wit-idl.syntaxCheckWorkspace: the call runs up to its first
\* await, of findFiles.
syntaxCheckWorkspace ==
    /\ Len(workspaceRuns) < MaxWorkspaceChecks
    /\ workspaceRuns' = Append(workspaceRuns,
                               [pc |-> "findFiles", witFiles |-> <<>>, i |-> 1])
    /\ UNCHANGED <<workspaceCheck, diagnosticCollection, fileChecks>>
    /\ UNCHANGED <<formatterVars, wasmVars, bindgenVars>>

\* The head of the loop's iteration j: past the last file withProgress
\* resolves; progress.report stands outside the iteration's try, so if it
\* throws withProgress rejects; either way the finally block is next.
\* Otherwise the iteration runs up to await openTextDocument(file).
nextFile(run, j, reportThrows) ==
    IF j > Len(run.witFiles) \/ reportThrows
    THEN [run EXCEPT !.pc = "finally", !.i = j]
    ELSE [run EXCEPT !.pc = "openTextDocument", !.i = j]

\* findFiles resolves: no file, return; otherwise clearAllDiagnostics(),
\* this.workspaceCheck = true and the loop up to its first await.
findFilesReturn(k) ==
    /\ workspaceRuns[k].pc = "findFiles"
    /\ \E witFiles \in WorkspaceFiles, reportThrows \in BOOLEAN :
          IF witFiles = <<>>
          THEN /\ ~reportThrows
               /\ workspaceRuns' = [workspaceRuns EXCEPT ![k].pc = "done"]
               /\ UNCHANGED <<workspaceCheck, diagnosticCollection>>
          ELSE /\ diagnosticCollection' = <<>>
               /\ workspaceCheck' = TRUE
               /\ workspaceRuns' =
                     [workspaceRuns EXCEPT
                        ![k] = nextFile([@ EXCEPT !.witFiles = witFiles], 1, reportThrows)]
    /\ UNCHANGED fileChecks
    /\ UNCHANGED <<formatterVars, wasmVars, bindgenVars>>

\* openTextDocument(file) resolves, and the iteration goes on to await
\* validate, or rejects, and the iteration's catch goes to the next file.
openTextDocumentReturn(k) ==
    /\ workspaceRuns[k].pc = "openTextDocument"
    /\ \E opened \in BOOLEAN, reportThrows \in BOOLEAN :
          IF opened
          THEN /\ ~reportThrows
               /\ workspaceRuns' = [workspaceRuns EXCEPT ![k].pc = "validate"]
          ELSE workspaceRuns' =
                  [workspaceRuns EXCEPT ![k] = nextFile(@, @.i + 1, reportThrows)]
    /\ UNCHANGED <<workspaceCheck, diagnosticCollection, fileChecks>>
    /\ UNCHANGED <<formatterVars, wasmVars, bindgenVars>>

\* validate resolves in the loop: if (errorInfo) { set(document.uri,
\* [diagnostic]) }, and the next file.
validateReturn(k) ==
    /\ workspaceRuns[k].pc = "validate"
    /\ \E outcome \in Outcomes, reportThrows \in BOOLEAN :
          LET run == workspaceRuns[k] IN
          /\ diagnosticCollection' =
                IF outcome = "error"
                THEN set(diagnosticCollection, run.witFiles[run.i],
                         [by |-> "workspace", run |-> k])
                ELSE diagnosticCollection
          /\ workspaceRuns' =
                [workspaceRuns EXCEPT ![k] = nextFile(@, @.i + 1, reportThrows)]
    /\ UNCHANGED <<workspaceCheck, fileChecks>>
    /\ UNCHANGED <<formatterVars, wasmVars, bindgenVars>>

\* finally { this.workspaceCheck = false; }, and the summary.
finallyReset(k) ==
    /\ workspaceRuns[k].pc = "finally"
    /\ workspaceCheck' = FALSE
    /\ workspaceRuns' = [workspaceRuns EXCEPT ![k].pc = "done"]
    /\ UNCHANGED <<diagnosticCollection, fileChecks>>
    /\ UNCHANGED <<formatterVars, wasmVars, bindgenVars>>

\* onDidSaveTextDocument, onDidOpenTextDocument: syntaxCheckCurrentFile
\* runs clearDiagnostics(document.uri) and up to await validate.
syntaxCheckCurrentFile(uri) ==
    /\ Len(fileChecks) < MaxFileChecks
    /\ diagnosticCollection' = clearDiagnostics(uri)
    /\ fileChecks' = Append(fileChecks, [pc |-> "validate", uri |-> uri])
    /\ UNCHANGED <<workspaceCheck, workspaceRuns>>
    /\ UNCHANGED <<formatterVars, wasmVars, bindgenVars>>

\* validate resolves in syntaxCheckCurrentFile: the diagnostic is set if
\* there is an errorInfo; a rejection is caught and reported.
currentFileValidateReturn(j) ==
    /\ fileChecks[j].pc = "validate"
    /\ \E outcome \in Outcomes :
          diagnosticCollection' =
             IF outcome = "error"
             THEN set(diagnosticCollection, fileChecks[j].uri, [by |-> "file", run |-> j])
             ELSE diagnosticCollection
    /\ fileChecks' = [fileChecks EXCEPT ![j].pc = "done"]
    /\ UNCHANGED <<workspaceCheck, workspaceRuns>>
    /\ UNCHANGED <<formatterVars, wasmVars, bindgenVars>>

\* onDidCloseTextDocument: validator.clearDiagnostics(document.uri)
onDidCloseTextDocument(uri) ==
    /\ diagnosticCollection' = clearDiagnostics(uri)
    /\ UNCHANGED <<workspaceCheck, workspaceRuns, fileChecks>>
    /\ UNCHANGED <<formatterVars, wasmVars, bindgenVars>>

(***************************************************************************)
(* WebAssembly component detection                                         *)
(***************************************************************************)
\* An unsigned 32-bit number is held as its four bytes, the lowest first,
\* so that every value of the header field is there at its full width.
\* U32(n) is the number n, for an n below 2^31.
U32(n) ==
    <<n % 256, (n \div 256) % 256, (n \div 65536) % 256, (n \div 16777216) % 256>>

\* header.readUInt32LE(offset), offset 0-based as in the code.
readUInt32LE(header, offset) ==
    <<header[offset + 1], header[offset + 2], header[offset + 3], header[offset + 4]>>

\* x >>> 16: the two high bytes come down, zeros come in.
shiftRightUnsigned16(x) ==
    <<x[3], x[4], 0, 0>>

\* x & mask, byte by byte; every byte of the masks in use is 0x00 or 0xff.
bitAnd(x, mask) ==
    [b \in 1..4 |-> IF mask[b] = 255 THEN x[b] ELSE 0]

\* The legacy heuristic alone: version !== 1.
isWasmComponentVersionLegacy(version) ==
    version # U32(1)

\* const layer = (version >>> 16) & 0xffff;
\* if (version === 1) return false; return layer === 1;
isWasmComponentVersion(version) ==
    LET layer == bitAnd(shiftRightUnsigned16(version), U32(65535)) IN
    IF version = U32(1) THEN FALSE ELSE layer = U32(1)

\* fs.readSync(fd, header, 0, 8, 0): the bytes read into the 8-byte buffer.
readSync(file) ==
    IF Len(file.bytes) < 8 THEN Len(file.bytes) ELSE 8

\* readWasmHeader(filePath): openSync throws for a file that cannot be
\* read and the catch answers no magic; so does a read of fewer than 8 bytes.
readWasmHeaderOf(file) ==
    IF ~file.readable THEN [magicOk |-> FALSE, version |-> U32(0)]
    ELSE IF readSync(file) < 8 THEN [magicOk |-> FALSE, version |-> U32(0)]
    ELSE LET header == SubSeq(file.bytes, 1, 8) IN
         [magicOk |-> header[1] = 0 /\ header[2] = 97 /\ header[3] = 115 /\ header[4] = 109,
          version |-> readUInt32LE(header, 4)]

\* isWasmComponentFile(filePath) is called, and awaits readWasmHeader.
isWasmComponentFile ==
    /\ wasmPc = "idle"
    /\ wasmPc' = "readWasmHeader"
    /\ UNCHANGED <<wasmFile, wasmHeader, isComponent>>
    /\ UNCHANGED <<formatterVars, validatorVars, bindgenVars>>

\* const { magicOk, version } = await readWasmHeader(filePath)
readWasmHeader ==
    /\ wasmPc = "readWasmHeader"
    /\ wasmHeader' = readWasmHeaderOf(wasmFile)
    /\ wasmPc' = "header"
    /\ UNCHANGED <<wasmFile, isComponent>>
    /\ UNCHANGED <<formatterVars, validatorVars, bindgenVars>>

\* return magicOk && isWasmComponentVersion(version)
isWasmComponentFileReturn ==
    /\ wasmPc = "header"
    /\ isComponent' = (wasmHeader.magicOk /\ isWasmComponentVersion(wasmHeader.version))
    /\ wasmPc' = "done"
    /\ UNCHANGED <<wasmFile, wasmHeader>>
    /\ UNCHANGED <<formatterVars, validatorVars, bindgenVars>>

(***************************************************************************)
(* wasmUtils: initialization and the helpers                               *)
(***************************************************************************)
\* The helpers that create a WitBindgen instance, use it and free it.
OwnInstanceHelpers ==
    {"getWitBindgenVersionFromWasm", "validateWitSyntaxFromWasm",
     "validateWitSyntaxDetailedFromWasm", "extractInterfacesFromWasm",
     "generateBindingsFromWasm", "extractWitFromComponent", "extractCoreWasmFromComponent"}

\* The exported functions that need the module.
Helpers == OwnInstanceHelpers \cup {"initializeWasm", "createWitBindgenInstance"}

\* How many calls of the helpers a run makes.
MaxHelperCalls == 2

\* The promise of the call settles.
settle(call, outcome) == [call EXCEPT !.pc = "done", !.outcome = outcome]

\* The part of a helper after the module is there: new WitBindgen(), the
\* call on the instance, which returns or throws, and free().
\* getWitBindgenVersionFromWasm frees after version() inside the try, the
\* others free in a finally block; createWitBindgenInstance hands the
\* instance to its caller.
body(call, throws) ==
    IF call.helper = "initializeWasm" THEN settle(call, "resolved")
    ELSE IF call.helper = "createWitBindgenInstance"
    THEN settle([call EXCEPT !.created = 1], "resolved")
    ELSE IF call.helper = "getWitBindgenVersionFromWasm"
    THEN settle([call EXCEPT !.created = 1, !.frees = IF throws THEN 0 ELSE 1],
                IF throws THEN "rejected" ELSE "resolved")
    ELSE settle([call EXCEPT !.created = 1, !.frees = 1],
                IF throws THEN "rejected" ELSE "resolved")

\* A helper is called. With the module set, initializeWasm returns at
\* once and a helper goes on to its body; with wasmModule null the call
\* is in initializeWasm, awaiting import("wit-bindgen-wasm").
callHelper(h) ==
    /\ Len(helperCalls) < MaxHelperCalls
    /\ LET call == [helper |-> h, pc |-> "import", created |-> 0, frees |-> 0,
                    outcome |-> "pending"]
       IN  helperCalls' = Append(helperCalls,
                                 IF ~wasmModule THEN call
                                 ELSE IF h = "initializeWasm" THEN settle(call, "resolved")
                                 ELSE [call EXCEPT !.pc = "ready"])
    /\ UNCHANGED <<wasmModule, defaultInvocations>>
    /\ UNCHANGED <<formatterVars, validatorVars, wasmVars>>

\* The import resolves: without the extension path the call throws, and
\* so it does when the import rejects; otherwise module.default is invoked
\* and awaited.
importReturn(k) ==
    /\ helperCalls[k].pc = "import"
    /\ \E result \in {"module", "rejected", "no extension path"} :
          IF result = "module"
          THEN /\ defaultInvocations' = defaultInvocations + 1
               /\ helperCalls' = [helperCalls EXCEPT ![k].pc = "default"]
          ELSE /\ helperCalls' = [helperCalls EXCEPT ![k] = settle(@, "rejected")]
               /\ UNCHANGED defaultInvocations
    /\ UNCHANGED wasmModule
    /\ UNCHANGED <<formatterVars, validatorVars, wasmVars>>

\* module.default resolves: wasmModule = module; or rejects: the catch
\* logs and rethrows.
defaultReturn(k) ==
    /\ helperCalls[k].pc = "default"
    /\ \E resolved \in BOOLEAN :
          IF resolved
          THEN /\ wasmModule' = TRUE
               /\ helperCalls' =
                     [helperCalls EXCEPT
                        ![k] = IF @.helper = "initializeWasm" THEN settle(@, "resolved")
                               ELSE [@ EXCEPT !.pc = "ready"]]
          ELSE /\ helperCalls' = [helperCalls EXCEPT ![k] = settle(@, "rejected")]
               /\ UNCHANGED wasmModule
    /\ UNCHANGED defaultInvocations
    /\ UNCHANGED <<formatterVars, validatorVars, wasmVars>>

\* The helper goes on after its await: if (!wasmModule) throw; otherwise
\* its body.
bodyReturn(k) ==
    /\ helperCalls[k].pc = "ready"
    /\ \E throws \in BOOLEAN :
          helperCalls' =
             [helperCalls EXCEPT
                ![k] = IF ~wasmModule THEN settle(@, "rejected") ELSE body(@, throws)]
    /\ UNCHANGED <<wasmModule, defaultInvocations>>
    /\ UNCHANGED <<formatterVars, validatorVars, wasmVars>>

(***************************************************************************)
(* Inputs                                                                  *)
(***************************************************************************)
\* Every text of 1 to n lines of pool, joined by "\n".
Texts(pool, n) == {join(ls, "\n") : ls \in UNION {[1..k -> pool] : k \in 1..n}}

Spaces2 == [tabSize |-> 2, insertSpaces |-> TRUE]

Spaces4 == [tabSize |-> 4, insertSpaces |-> TRUE]

\* Documents of the repository's formatter tests.
AlreadyFormatted ==
    "package foo:bar;\n\ninterface test {\n    f1: func();\n"
        \o "    f2: func(a: u32) -> string;\n}\n\nworld test-world {\n"
        \o "    import test;\n    export test;\n}"

WithComments ==
    "package foo:bar;\n\n// This is a line comment\ninterface test{\n"
        \o "/// This is a doc comment\nf1:func();\n/* Block comment */\nf2:func();\n}"

NestedRecord ==
    "package foo:bar;\n\ninterface test{\nrecord   person{\nname:string,\nage:u32,\n"
        \o "active:bool,\n}\n}"

MultilineParams == "interface x {\n  foo: func(\n  a: u8,\n  b: u16,\n  );\n}"

MultilineTuple == "type load-store-all-sizes = future<tuple<\nstring,\nu8,\n>>;"

\* MultilineParams as it may be written: WIT allows white space before "(".
SpacedParams == "interface x {\nfoo: func (\na: u8,\n);\n}"

\* Line shapes the pools leave out: white space only, CR LF line ends.
BlankAndCrLf == "\n \t\r\nworld w{\r\n\nimport   a;\r\n}\n"

Samples ==
    {AlreadyFormatted, WithComments, NestedRecord, MultilineParams, SpacedParams,
     MultilineTuple, BlankAndCrLf, "\n\n\n"}

\* The samples that are whole WIT documents.
WitDocuments ==
    {AlreadyFormatted, WithComments, NestedRecord, MultilineParams, SpacedParams}

\* new WitSyntaxValidator(): no diagnostic, no check under way.
ValidatorIdle ==
    /\ workspaceCheck = FALSE
    /\ diagnosticCollection = <<>>
    /\ workspaceRuns = <<>>
    /\ fileChecks = <<>>

\* No call of isWasmComponentFile under way.
WasmIdle ==
    /\ wasmFile = [readable |-> FALSE, bytes |-> <<>>]
    /\ wasmPc = "idle"
    /\ wasmHeader = [magicOk |-> FALSE, version |-> U32(0)]
    /\ isComponent = FALSE

\* A fresh WitFormatter and the document the editor holds.
FormatterIdle(docs, opts) ==
    /\ document \in docs
    /\ options \in opts
    /\ pc = "idle"
    /\ caller = "provider"
    /\ content = ""
    /\ lines = <<>>
    /\ i = 1
    /\ out = <<>>
    /\ indentLevel = 0
    /\ inMultiLineTupleAlias = FALSE
    /\ aliasGenericDepth = 0
    /\ inFuncParams = FALSE
    /\ formatted = ""
    /\ edits = [returned |-> FALSE, list |-> <<>>]
    /\ emitted = <<>>
    /\ calls = <<>>

\* let wasmModule = null, and no call yet.
BindgenIdle ==
    /\ wasmModule = FALSE
    /\ defaultInvocations = 0
    /\ helperCalls = <<>>

InitWith(docs, opts) ==
    /\ ValidatorIdle
    /\ WasmIdle
    /\ BindgenIdle
    /\ FormatterIdle(docs, opts)

\* One call by the editor.
Next ==
    \/ provideDocumentFormattingEdits
    \/ BlankLine
    \/ CommentLine
    \/ ContentLine
    \/ formatReturn
    \/ provideReturn

\* The editor's call, and then direct calls on the same instance.
NextReuse == Next \/ formatWitContent

MaxLines == 3

Pool ==
    {"", "// a:b ,c", "/* a->b,c */", "interface t{", "}", "f:func(", "type t=tuple<"}

Options ==
    {Spaces2, Spaces4, [tabSize |-> 1, insertSpaces |-> FALSE],
     [tabSize |-> 2, insertSpaces |-> FALSE], [tabSize |-> -1, insertSpaces |-> TRUE],
     [insertSpaces |-> TRUE]}

Init == InitWith(Texts(Pool, MaxLines) \cup Samples, Options)

Spec == Init /\ [][Next]_vars

MaxLinesReuse == 3

PoolReuse == {"interface t{", "}", "f:func(", "f:func (", "n:u8,"}

InitReuse == InitWith(Texts(PoolReuse, MaxLinesReuse) \cup Samples, {Spaces2})

ReuseSpec == InitReuse /\ [][NextReuse]_vars

\* Comments of both kinds, with text the line rewriter has rules for.
MaxLinesComment == 3

PoolComment ==
    {"/*", "returns:  a ,b", "* k:v ,w", "*/", "/* a->b,c */", "// a:b ,c", "interface t{"}

InitComment == InitWith(Texts(PoolComment, MaxLinesComment) \cup Samples, {Spaces2})

CommentSpec == InitComment /\ [][Next]_vars

\* Blocks that open and close, in and out of order.
MaxLinesBrace == 4

PoolBrace == {"interface t{", "record   r{", "n:u8,", "}", "} x {", ""}

InitBrace == InitWith(Texts(PoolBrace, MaxLinesBrace) \cup Samples, {Spaces4})

BraceSpec == InitBrace /\ [][Next]_vars

\* Parameter lists over several lines.
MaxLinesParam == 4

PoolParam == {"f:func(", "a:u8,", ");", "", "// c", "g:func()->u8;"}

InitParam == InitWith(Texts(PoolParam, MaxLinesParam) \cup Samples, {Spaces2})

ParamSpec == InitParam /\ [][Next]_vars

\* Tuple aliases over several lines.
MaxLinesAlias == 3

PoolAlias == {"type t=tuple<", "type t=future<tuple<", "u8,", ">", ">;", ">>;"}

InitAlias == InitWith(Texts(PoolAlias, MaxLinesAlias) \cup Samples, {Spaces2})

AliasSpec == InitAlias /\ [][Next]_vars

\* White space between the tokens of a line: up to MaxGap spaces, or a tab.
MaxGap == 1

Gaps == {Repeat(" ", n) : n \in 0..MaxGap} \cup {"\t"}

\* The function declaration of the tests, my-func:func(a:u32,b:string)->bool;
\* with the white space g around its separators.
FuncLine(g) ==
    "my-func" \o g[1] \o ":" \o g[2] \o "func" \o g[3] \o "(a:" \o g[4] \o "u32" \o g[1]
        \o "," \o g[5] \o "b:string)" \o g[6] \o "->" \o g[7] \o "bool" \o g[6] \o ";"

FuncLines == {FuncLine(g) : g \in [1..7 -> Gaps]}

InitFunc == InitWith(FuncLines \cup Samples, {Spaces2})

FuncSpec == InitFunc /\ [][Next]_vars

\* How a statement line may end: without ";", with one, with several.
Terminators == {"", ";", ";;"}

\* Package, use and type alias lines with the white space g between their
\* tokens and the terminator t.
PackageLine(g, t) == "package " \o g[1] \o "foo:bar" \o g[2] \o t

UseLine(g, t) ==
    "use " \o g[1] \o "my-interface.{type1," \o g[2] \o "type2}" \o g[3] \o t

TypeAliasLine(g, t) ==
    "type " \o g[1] \o "my-type" \o g[2] \o "=" \o g[2] \o "tuple<u8," \o g[3] \o "u8>"
        \o g[1] \o t

\* The statement lines of the tests.
StmtSamples ==
    {"package   foo:bar   ;", "type  my-type  =  u32 ;", "type  my-type  =  list<u8> ;",
     "use   my-interface.{type1,  type2}  ;", "use   my-interface.{type1}   as   alias-name ;",
     "use   other:interface/types.{my-type};", "use   another   as   alias;"}

StmtLines ==
    StmtSamples \cup
    UNION {{trim(PackageLine(g, t)), trim(UseLine(g, t)), trim(TypeAliasLine(g, t))} :
               g \in [1..3 -> Gaps], t \in Terminators}

InitStmt == InitWith(StmtLines \cup Samples, {Spaces2})

StmtSpec == InitStmt /\ [][Next]_vars

ImportExportKeywords == {"import", "export"}

\* Import and export lines of a world, with a function signature and
\* without, with the white space g between their tokens.
ImportExportFuncLine(kw, g) ==
    kw \o " " \o g[1] \o "run:" \o g[2] \o "func" \o g[3] \o "(msg:" \o g[3] \o "string)"
        \o g[4] \o ";"

ImportExportNameLine(kw, g) == kw \o " " \o g[1] \o "test-interface" \o g[4] \o ";"

ImportExportLines ==
    UNION {{ImportExportFuncLine(kw, g), ImportExportNameLine(kw, g)} :
               kw \in ImportExportKeywords, g \in [1..4 -> Gaps]}

InitImportExport == InitWith(ImportExportLines \cup Samples, {Spaces2})

ImportExportSpec == InitImportExport /\ [][Next]_vars

\* A record field, a variant case with a payload and an enum case or flag,
\* each with a trailing comma and the white space g between the tokens.
RecordFieldLine(g) ==
    "name" \o g[1] \o ":" \o g[2] \o "tuple<u8," \o g[3] \o "u8>" \o g[4] \o ","

VariantCaseLine(g) == "some" \o g[1] \o "(list<u8>)" \o g[4] \o ","

EnumCaseLine(g) == "case-a" \o g[4] \o ","

FieldLines ==
    UNION {{RecordFieldLine(g), VariantCaseLine(g), EnumCaseLine(g)} : g \in [1..4 -> Gaps]}

InitField == InitWith(FieldLines \cup Samples, {Spaces2})

FieldSpec == InitField /\ [][Next]_vars

\* Block openers and lines of no construct kind.
BlockLines == {"interface" \o " " \o g \o "test" \o g \o "{" : g \in Gaps}
                  \cup {"record" \o " " \o g \o "person" \o g \o "{" : g \in Gaps}

UnrecognizedLines == {"@since(version  =  0.2.0)", "%name  : u8", ">>  ;", "1  ,2:3"}

\* A line of every construct kind.
LayoutLines ==
    StmtLines \cup ImportExportLines \cup FieldLines \cup BlockLines \cup UnrecognizedLines
        \cup {FuncLine([k \in 1..7 |-> g]) : g \in Gaps}

\* Each of them as the third line of a world, after a line of no kind.
LayoutDocuments == {"world w{\n@since(version  =  0.2.0)\n" \o l : l \in LayoutLines}

InitLayout == InitWith(LayoutDocuments \cup Samples, {Spaces2})

LayoutSpec == InitLayout /\ [][Next]_vars

\* Type aliases that end with a generic opener, over several lines.
MaxLinesGeneric == 3

PoolGeneric ==
    {"type t=tuple<", "type t=list<", "type t=option<", "type t=result<",
     "type t=future<list<", "u8,", ">;", ">>;"}

InitGeneric == InitWith(Texts(PoolGeneric, MaxLinesGeneric) \cup Samples, {Spaces2})

GenericSpec == InitGeneric /\ [][Next]_vars

\* Parameter lists and tuple aliases inside one another.
MaxLinesBoth == 4

PoolBoth == {"interface t{", "f:func(", "type t=tuple<", "u8,", ")", ">;", "}"}

InitBoth == InitWith(Texts(PoolBoth, MaxLinesBoth) \cup Samples, {Spaces2})

BothSpec == InitBoth /\ [][Next]_vars

\* Lines that match the pattern of more than one construct kind.
OverlapLines ==
    {"package a:func", "package a->b;", "interface a->b{", "world w:func{",
     "record r:func{", "enum e->f {", "type t=a->b", "type f=x: func ;",
     "type  x:func()", "type t->u8", "import a:func()->u8", "export f : func(a:u8)",
     "import use x", "use a.{b}->c", "use a:b ;", "use x ,", "f:func()->u8",
     "a:u8 ,", "x  ->y", "%a: func()", "a ,", "@x  y"}

OverlapDocuments ==
    OverlapLines \cup {"interface i{\n" \o l \o "\n}" : l \in OverlapLines}

InitOverlap == InitWith(OverlapDocuments \cup Samples, {Spaces2})

OverlapSpec == InitOverlap /\ [][Next]_vars

\* Blank lines and "//" lines that hold the characters the trackers count,
\* among the lines that move the trackers.
MaxLinesQuiet == 4

PoolQuiet ==
    {"", "// a<b{ f:func(", "// }>)", "interface t{", "f:func(", "type t=tuple<", ")"}

InitQuiet == InitWith(Texts(PoolQuiet, MaxLinesQuiet) \cup Samples, {Spaces2})

QuietSpec == InitQuiet /\ [][Next]_vars

\* Blocks inside one another, with fields, blank lines and comments.
MaxLinesAlign == 4

PoolAlign == {"interface t{", "record   r{", "}", "n:u8,", "", "// {"}

InitAlign == InitWith(Texts(PoolAlign, MaxLinesAlign) \cup Samples, {Spaces2})

AlignSpec == InitAlign /\ [][Next]_vars

\* Parameter lists closed by a ")" at the start of a line and by a ")"
\* after the last parameter.
MaxLinesClose == 4

PoolClose == {"interface t{", "f:func(", "a:u8,", ")->u8;", "b:u8)->u8;", "g:func();", "}"}

InitClose == InitWith(Texts(PoolClose, MaxLinesClose) \cup Samples, {Spaces2})

CloseSpec == InitClose /\ [][Next]_vars

\* The validator of a fresh extension host, the command, the editor's
\* events and the awaited calls coming back in any order.
InitValidator == InitWith({""}, {Spaces2})

NextValidator ==
    \/ syntaxCheckWorkspace
    \/ \E k \in DOMAIN workspaceRuns : findFilesReturn(k)
    \/ \E k \in DOMAIN workspaceRuns : openTextDocumentReturn(k)
    \/ \E k \in DOMAIN workspaceRuns : validateReturn(k)
    \/ \E k \in DOMAIN workspaceRuns : finallyReset(k)
    \/ \E uri \in Uris : syntaxCheckCurrentFile(uri)
    \/ \E j \in DOMAIN fileChecks : currentFileValidateReturn(j)
    \/ \E uri \in Uris : onDidCloseTextDocument(uri)

ValidatorSpec == InitValidator /\ [][NextValidator]_vars

\* The files given to isWasmComponentFile: a 4-byte magic, right or wrong,
\* a 4-byte version field and one more byte, cut at every length; and a
\* path that cannot be opened.
Magics == {<<0, 97, 115, 109>>, <<1, 97, 115, 109>>, <<0, 97, 115, 110>>, <<0, 0, 0, 0>>}

VersionBytes == {0, 1, 13, 128, 255}

WasmFiles ==
    {[readable |-> FALSE, bytes |-> <<>>]} \cup
    {[readable |-> TRUE, bytes |-> SubSeq(m \o <<v[1], v[2], v[3], v[4]>> \o <<0>>, 1, n)] :
        m \in Magics, v \in [1..4 -> VersionBytes], n \in 0..9}

InitWasm ==
    /\ ValidatorIdle
    /\ BindgenIdle
    /\ FormatterIdle({""}, {Spaces2})
    /\ wasmFile \in WasmFiles
    /\ wasmPc = "idle"
    /\ wasmHeader = [magicOk |-> FALSE, version |-> U32(0)]
    /\ isComponent = FALSE

NextWasm ==
    \/ isWasmComponentFile
    \/ readWasmHeader
    \/ isWasmComponentFileReturn

WasmSpec == InitWasm /\ [][NextWasm]_vars

\* The helpers called in any order, their awaits coming back in any order.
InitBindgen == InitWith({""}, {Spaces2})

NextBindgen ==
    \/ \E h \in Helpers : callHelper(h)
    \/ \E k \in DOMAIN helperCalls : importReturn(k)
    \/ \E k \in DOMAIN helperCalls : defaultReturn(k)
    \/ \E k \in DOMAIN helperCalls : bodyReturn(k)

BindgenSpec == InitBindgen /\ [][NextBindgen]_vars

(***************************************************************************)
(* Properties                                                              *)
(***************************************************************************)
Finished == 1..Len(calls)

\* The last call of formatWitContent has returned: content is its argument,
\* formatted its result and emitted the indentation of its lines.
Returned == pc \in {"idle", "formatted"} /\ calls # <<>>

\* Empty, or white space only.
IsBlank(s) == \A k \in 1..Len(s) : At(s, k) \in Ws

\* Line j of the pass, trimmed.
trimmedLine(j) == trim(lines[j])

\* A line with text that is not a "//" comment.
IsContent(t) == t # "" /\ ~startsWith(t, "//")

RECURSIVE InBlockComment(_, _)
\* Line j of ls starts inside a block comment: a line before it opened one
\* with "/*" and no line since held the "*/".
InBlockComment(ls, j) ==
    IF j <= 1 THEN FALSE
    ELSE LET t == trim(ls[j - 1]) IN
         IF InBlockComment(ls, j - 1) THEN ~includes(t, "*/")
         ELSE startsWith(t, "/*") /\ ~includes(From(t, 3), "*/")

\* A comment line: "//" or "///", "/*", or a line of an open block comment
\* (its "*" lines, its other lines and its "*/").
IsCommentLine(ls, j) ==
    LET t == trim(ls[j]) IN
    t # "" /\ (startsWith(t, "//") \/ startsWith(t, "/*") \/ InBlockComment(ls, j))

\* C1: formatWitContent is idempotent: when F is a WIT document, a call
\* whose argument is what the call on F returned (with the same options)
\* gives that argument back, byte for byte.
C1_Idempotent ==
    \A a \in Finished, b \in Finished :
        calls[a].content \in WitDocuments /\ calls[b].content = calls[a].result
            => calls[b].result = calls[b].content

\* C2: provideDocumentFormattingEdits returns no edit exactly when the
\* formatted text equals the document's text, and otherwise exactly one
\* edit, which replaces offsets 0..text.length by the formatted text.
C2_EditDecision ==
    edits.returned =>
        LET text == calls[1].content
            result == calls[1].result
        IN  /\ text = document
            /\ (edits.list = <<>>) <=> (result = text)
            /\ result # text =>
                   edits.list = <<[start |-> 0, end |-> Len(text), newText |-> result]>>

C2_NoEditWitness ==
    /\ edits.returned
    /\ edits.list = <<>>
    /\ document = AlreadyFormatted
    /\ \E j \in 1..Len(emitted) : emitted[j].count > 0

\* C3: formatWitContent is total: with a tabSize > 0 no step throws, the
\* pass stays inside the lines (one output line per line read), each step
\* moves on by one line or ends the pass after the last line (so a pass
\* over n lines ends with step n + 1, which returns the joined lines), and
\* the empty text formats to the empty text.
C3_Total ==
    /\ [](tabSizeOf(options) > 0 => pc # "threw")
    /\ [](pc = "loop" => i \in 1..(Len(lines) + 1) /\ Len(out) = i - 1)
    /\ [][pc = "loop" => \/ pc' = "loop" /\ i' = i + 1
                         \/ pc' # "loop" /\ i = Len(lines) + 1]_vars
    /\ [](\A k \in Finished : calls[k].content = "" => calls[k].result = "")

C3_UnbalancedWitness ==
    /\ edits.returned
    /\ startsWith(document, "}")
    /\ inFuncParams
    /\ inMultiLineTupleAlias

\* C4: the result is a function of the content (the options are those of
\* the run): two calls with the same content return the same text, whatever
\* the instance formatted before or in between.
C4_Pure ==
    \A a \in Finished, b \in Finished :
        calls[a].content = calls[b].content => calls[a].result = calls[b].result

C4_ReuseWitness ==
    /\ Len(calls) = 3
    /\ calls[1].content = calls[3].content
    /\ calls[2].content # calls[1].content
    /\ indentLevel > 0
    /\ inFuncParams

\* C5: the result has as many lines as the argument, and line j of the
\* result is empty exactly when line j of the argument is empty or white
\* space only: no line is added, removed, merged or split, and no line
\* with text becomes blank.
C5_LinesPreserved ==
    Returned =>
        LET inL == splitLines(content)
            outL == splitLines(formatted)
        IN  /\ Len(outL) = Len(inL)
            /\ \A j \in 1..Len(inL) : (outL[j] = "") <=> IsBlank(inL[j])

C5_BlankWitness ==
    /\ edits.returned
    /\ document = BlankAndCrLf
    /\ Len(splitLines(formatted)) = 7
    /\ formatted # document

\* C6: every line of the result that is not blank is k indent units and
\* then a character that is not white space, where the unit is one tab when
\* insertSpaces is false (whatever tabSize is) and tabSize spaces when
\* insertSpaces is true, and k is the depth computed for the line: the
\* base level plus the continuation extras.
C6_IndentUnit ==
    Returned /\ DOMAIN options = {"tabSize", "insertSpaces"} =>
        LET unit == IF options.insertSpaces THEN Repeat(" ", options.tabSize) ELSE "\t"
            outL == splitLines(formatted)
        IN  \A j \in 1..Len(outL) :
                outL[j] # "" =>
                    LET head == Repeat(unit, emitted[j].count) IN
                    /\ startsWith(outL[j], head)
                    /\ Len(outL[j]) > Len(head)
                    /\ At(outL[j], Len(head) + 1) \notin Ws

C6_TabWitness ==
    /\ edits.returned
    /\ options = [tabSize |-> 2, insertSpaces |-> FALSE]
    /\ \E j \in 1..Len(emitted) : emitted[j].count >= 2 /\ emitted[j].tuple + emitted[j].param > 0

\* C7: a comment line comes out as indentation followed by exactly its
\* trimmed text, whatever the comment holds.
C7_CommentsUntouched ==
    Returned =>
        LET outL == splitLines(formatted) IN
        \A j \in 1..Len(lines) :
            IsCommentLine(lines, j) => TrimStart(outL[j]) = trimmedLine(j)

\* C8: a content line that starts with "}" is emitted at the base level
\* after the decrement; a content line that ends with "{" and holds no "}"
\* is emitted at the base level it met and raises it by one for the lines
\* after it; no other content line moves the base level.  So the field of
\* a record of an interface is 2 units deep (8 spaces at tabSize 4) and
\* the two "}" after it are 1 and 0 units deep.
C8_BraceOrder ==
    /\ [][pc = "loop" /\ pc' = "loop" /\ i <= Len(lines) /\ IsContent(trimmedLine(i)) =>
            LET t == trimmedLine(i)
                base == emitted'[i].count - emitted'[i].tuple - emitted'[i].param
            IN  /\ base = IF startsWith(t, "}") THEN Max(0, indentLevel - 1) ELSE indentLevel
                /\ indentLevel' = IF endsWith(t, "{") /\ ~includes(t, "}")
                                   THEN base + 1 ELSE base
                /\ startsWith(out'[i], Repeat(indentUnit(options), base))]_vars
    /\ [](Returned /\ content = NestedRecord /\ options = Spaces4 =>
            LET outL == splitLines(formatted) IN
            /\ outL[4] = "    record person {"
            /\ outL[5] = "        name: string,"
            /\ outL[8] = "    }"
            /\ outL[9] = "}")

C8_NestedWitness ==
    /\ edits.returned
    /\ document = NestedRecord
    /\ options = Spaces4
    /\ emitted[5].count = 2
    /\ emitted[8].count = 1

\* A parameter of a list written over several lines: a name, ":" and a
\* type, with balanced "<" and ">" and no bracket of another kind.
IsParamLine(t) ==
    /\ test(Bol \o Cls("one", Alpha, FALSE) \o Cls("star", Word \cup {"-"}, FALSE)
                 \o WsStar \o Lit(":"), t)
    /\ CharSet(t) \cap {"(", ")", "{", "}"} = {}
    /\ CountChar(t, "<") = CountChar(t, ">")

\* Line p opens a parameter list: a content line ending with "func(" with
\* no ")", which is not itself inside a list still open (every "func("
\* line before it has met its ")" line).
OpensParams(p) ==
    /\ IsContent(trimmedLine(p))
    /\ endsWith(trimmedLine(p), "func(")
    /\ ~includes(trimmedLine(p), ")")
    /\ \A p2 \in 1..(p - 1) :
           IsContent(trimmedLine(p2)) /\ endsWith(trimmedLine(p2), "func(")
               => \E c \in (p2 + 1)..(p - 1) : startsWith(trimmedLine(c), ")")

\* The first line after p that starts with ")", or Len(lines) + 1.
ClosesParams(p) ==
    LET cs == {c \in (p + 1)..Len(lines) : startsWith(trimmedLine(c), ")")} IN
    IF cs = {} THEN Len(lines) + 1 ELSE CHOOSE c \in cs : \A d \in cs : c <= d

\* The lines p+1..q-1 are a parameter list: parameters, comments and blank
\* lines, and the first line with text is a parameter.
ParamList(p, q) ==
    /\ \A j \in (p + 1)..(q - 1) :
           \/ trimmedLine(j) = ""
           \/ startsWith(trimmedLine(j), "//")
           \/ IsParamLine(trimmedLine(j))
    /\ \E j \in (p + 1)..(q - 1) :
           /\ IsParamLine(trimmedLine(j))
           /\ \A k \in (p + 1)..(j - 1) : trimmedLine(k) = ""

RECURSIVE RunningBalance(_, _, _)
\* The count of "<" minus the count of ">" over lines p..j of ls.
RunningBalance(ls, p, j) ==
    IF j < p THEN 0
    ELSE RunningBalance(ls, p, j - 1)
             + CountChar(ls[j], "<") - CountChar(ls[j], ">")

\* Line p opens a tuple alias over several lines: "type <name> = ... tuple<"
\* with a "<" left open, and no such line before it.
OpensAlias(p) ==
    /\ startsWith(trimmedLine(p), "type ")
    /\ includes(trimmedLine(p), "=")
    /\ endsWith(trimmedLine(p), "tuple<")
    /\ RunningBalance(lines, p, p) > 0
    /\ \A p2 \in 1..(p - 1) : ~endsWith(trimmedLine(p2), "tuple<")

\* The first line after p on which the running count is back at 0, or
\* Len(lines) + 1.
ClosesAlias(p) ==
    LET cs == {c \in (p + 1)..Len(lines) : RunningBalance(lines, p, c) <= 0} IN
    IF cs = {} THEN Len(lines) + 1 ELSE CHOOSE c \in cs : \A d \in cs : c <= d

\* C10: after the line that opens a tuple alias, every line with text is
\* one indent unit deeper than that line until the line on which the count
\* of "<" minus ">" is back at 0; that line is as deep as the alias line,
\* and the lines after it have no alias extra.
C10_AliasIndent ==
    Returned =>
        \A p \in 1..Len(lines) :
            LET q == ClosesAlias(p) IN
            OpensAlias(p) =>
                /\ \A j \in (p + 1)..(q - 1) :
                       trimmedLine(j) # "" => emitted[j].count = emitted[p].count + 1
                /\ q <= Len(lines) =>
                       /\ emitted[q].count = emitted[p].count
                       /\ \A j \in (q + 1)..Len(lines) : emitted[j].tuple = 0

\* Every c of s is followed by exactly one space and then by a character
\* that is not white space.
OneSpaceAfter(s, c) ==
    \A k \in 1..Len(s) :
        At(s, k) = c => /\ k + 2 <= Len(s)
                        /\ At(s, k + 1) = " "
                        /\ At(s, k + 2) \notin Ws

\* Every "->" of s has exactly one space on each side.
OneSpaceAroundArrow(s) ==
    \A k \in 1..(Len(s) - 1) :
        SubSeq(s, k, k + 1) = "->" =>
            /\ k > 2 /\ At(s, k - 1) = " " /\ At(s, k - 2) \notin Ws
            /\ k + 3 <= Len(s) /\ At(s, k + 2) = " " /\ At(s, k + 3) \notin Ws

C12_WhitespaceCollapsed ==
    Returned /\ content \in StmtLines =>
        \A k \in 1..Len(formatted) :
            At(formatted, k) \in Ws =>
                /\ At(formatted, k) = " "
                /\ k < Len(formatted) => At(formatted, k + 1) \notin Ws

\* C13: the emitted text of a package, use or type alias line ends with
\* exactly one ";", and the character before it is not white space,
\* whether the line had no ";", one or several.
C13_OneTerminator ==
    Returned /\ content \in StmtLines =>
        /\ endsWith(formatted, ";")
        /\ Len(formatted) >= 2
        /\ At(formatted, Len(formatted) - 1) \notin Ws \cup {";"}

\* C14: a line that starts with "import " or "export " is emitted with one
\* space after the keyword; when it holds a function signature (":", white
\* space or none, "func") it has the shape of a function declaration,
\* whatever the space between ":" and "func"; otherwise nothing else
\* changes but the white space around the ";" at the end.
C14_ImportExport ==
    Returned /\ content \in ImportExportLines =>
        \E kw \in ImportExportKeywords :
            /\ startsWith(content, kw \o " ")
            /\ startsWith(formatted, kw \o " ")
            /\ At(formatted, Len(kw) + 2) \notin Ws
            /\ IF test(Lit(":") \o WsStar \o Lit("func") \o WordBoundary, content)
               THEN /\ includes(formatted, ": func(")
                    /\ OneSpaceAfter(formatted, ":")
                    /\ endsWith(formatted, ");")
               ELSE formatted = kw \o " test-interface;"

\* C15: in the emitted text of a field line every ":" is followed by
\* exactly one space, every "," but the last one too, and the trailing
\* comma ends the line with no space before it.
C15_FieldShape ==
    Returned /\ content \in FieldLines =>
        LET n == Len(formatted) IN
        /\ OneSpaceAfter(formatted, ":")
        /\ OneSpaceAfter(SubSeq(formatted, 1, n - 1), ",")
        /\ At(formatted, n) = ","
        /\ n >= 2 /\ At(formatted, n - 1) \notin Ws

RECURSIVE StripWs(_)
\* The characters of s that are not white space, in order.
StripWs(s) ==
    IF s = "" THEN ""
    ELSE IF At(s, 1) \in Ws THEN StripWs(From(s, 2))
    ELSE At(s, 1) \o StripWs(From(s, 2))

\* A trimmed line of no construct kind.
Unrecognized(t) ==
    /\ \A kw \in {"package ", "interface ", "world ", "import ", "export ", "use "} :
           ~startsWith(t, kw)
    /\ ~isTypeDecl(t)
    /\ ~(startsWith(t, "type ") /\ includes(t, "="))
    /\ ~isFuncDecl(t)
    /\ ~isFieldDecl(t)

\* C16: the formatter changes white space only: every emitted line has the
\* characters of its input line that are not white space, in the same
\* order; and a line of no construct kind is emitted as the indentation
\* computed for it followed by its trimmed text.
C16_LayoutOnly ==
    Returned =>
        LET outL == splitLines(formatted) IN
        \A j \in 1..Len(lines) :
            /\ StripWs(outL[j]) = StripWs(lines[j])
            /\ trimmedLine(j) # "" /\ Unrecognized(trimmedLine(j)) =>
                   outL[j] = Repeat(indentUnit(options), emitted[j].count) \o trimmedLine(j)

C16_KindsWitness ==
    /\ edits.returned
    /\ document = "world w{\n@since(version  =  0.2.0)\nname\t:\ttuple<u8,\tu8>\t,"
    /\ formatted = "world w {\n  @since(version  =  0.2.0)\n  name\t: tuple<u8, u8>\t,"

\* C19: indentLevel is never negative, and no line is emitted with a
\* negative count of indent units, also for documents with more lines
\* that start with "}" than openers.
C19_NeverNegative ==
    /\ indentLevel >= 0
    /\ \A j \in 1..Len(emitted) : emitted[j].count >= 0
    /\ tabSizeOf(options) > 0 => pc # "threw"

C19_ExtraCloseWitness ==
    /\ edits.returned
    /\ document = "}\n}\ninterface t{"
    /\ indentLevel = 1
    /\ formatted = "}\n}\ninterface t {"

\* The first line of ls after line p that is not blank, or 0.
NextNonBlank(ls, p) ==
    LET js == {j \in (p + 1)..Len(ls) : ~IsBlank(ls[j])} IN
    IF js = {} THEN 0 ELSE CHOOSE j \in js : \A k \in js : j <= k

\* C20: on a content line that ends with "func(", with the parameter
\* continuation off, the continuation goes on unless the first line after
\* it that is not blank is a "//" comment: it goes on when that line is a
\* content line and when there is no such line.  While the continuation
\* is off no line gets the parameter extra.
C20_Lookahead ==
    [][pc = "loop" /\ pc' = "loop" /\ i <= Len(lines) /\ IsContent(trimmedLine(i)) =>
          /\ ~inFuncParams => emitted'[i].param = 0
          /\ ~inFuncParams /\ endsWith(trimmedLine(i), "func(") =>
                 LET n == NextNonBlank(lines, i) IN
                 inFuncParams' = (n = 0 \/ ~startsWith(trimmedLine(n), "//"))
          /\ ~inFuncParams /\ ~endsWith(trimmedLine(i), "func(") => ~inFuncParams']_vars

C20_CommentNextWitness ==
    /\ edits.returned
    /\ document = "f:func(\n\n// c\na:u8,"
    /\ ~inFuncParams
    /\ formatted = "f: func(\n\n// c\na: u8,"

\* A workspace check is in its per-file loop.
InLoop(run) == run.pc \in {"openTextDocument", "validate"}

\* The step is a call of clearDiagnostics(uri), from syntaxCheckCurrentFile
\* or from the close event.
IsClearStep(uri) ==
    /\ workspaceRuns' = workspaceRuns
    /\ \/ fileChecks' = fileChecks
       \/ /\ Len(fileChecks') = Len(fileChecks) + 1
          /\ fileChecks'[Len(fileChecks')].uri = uri

\* C17: clearDiagnostics(uri) removes the uri exactly when workspaceCheck is
\* false; workspaceCheck is true while a workspace check is in its
\* per-file loop and false once no check is past findFiles and before the
\* end of its finally block; and no step of a single-file check or of a
\* close event removes a diagnostic set by a workspace check that is still
\* in its loop.
C17_WorkspaceGuard ==
    [][/\ \A k \in DOMAIN workspaceRuns : InLoop(workspaceRuns[k]) => workspaceCheck
       /\ \A k \in DOMAIN workspaceRuns' : InLoop(workspaceRuns'[k]) => workspaceCheck'
       /\ \A u \in DOMAIN diagnosticCollection :
            /\ IsClearStep(u) /\ u \notin DOMAIN diagnosticCollection' => ~workspaceCheck
            /\ diagnosticCollection[u].by = "workspace"
                 /\ InLoop(workspaceRuns[diagnosticCollection[u].run])
                 /\ workspaceRuns' = workspaceRuns
               => u \in DOMAIN diagnosticCollection']_vars

\* The file has the 8 bytes of a header and the 4 magic bytes "\0asm".
HasMagic(file) ==
    /\ file.readable
    /\ Len(file.bytes) >= 8
    /\ <<file.bytes[1], file.bytes[2], file.bytes[3], file.bytes[4]>> = <<0, 97, 115, 109>>

\* The layer field: the little-endian u16 in bytes 6 and 7 of the file,
\* which are bits 16 to 31 of the header field.
LayerOf(file) == file.bytes[7] + 256 * file.bytes[8]

\* C18: isWasmComponentVersion(v) is true exactly when the layer field,
\* bits 16 to 31 of v, is 1: false for v = 1, v = 0 and every v of layer 0,
\* true for 65549; and isWasmComponentFile is true exactly when the magic
\* bytes match and the layer is 1, so false for a file shorter than 8
\* bytes and for one that cannot be read.
C18_ComponentDetection ==
    /\ wasmPc \in {"header", "done"} /\ HasMagic(wasmFile) =>
          /\ wasmHeader.magicOk
          /\ wasmHeader.version = SubSeq(wasmFile.bytes, 5, 8)
          /\ isWasmComponentVersion(wasmHeader.version) = (LayerOf(wasmFile) = 1)
          /\ wasmHeader.version \in {U32(0), U32(1)} =>
                ~isWasmComponentVersion(wasmHeader.version)
          /\ wasmHeader.version = U32(65549) => isWasmComponentVersion(wasmHeader.version)
    /\ wasmPc = "done" =>
          /\ isComponent = (HasMagic(wasmFile) /\ LayerOf(wasmFile) = 1)
          /\ ~wasmFile.readable \/ Len(wasmFile.bytes) < 8 => ~isComponent
    /\ wasmPc # "done" => ~isComponent

C18_ComponentWitness ==
    /\ wasmPc = "done"
    /\ wasmFile.bytes = <<0, 97, 115, 109, 13, 0, 1, 0>>
    /\ wasmHeader = [magicOk |-> TRUE, version |-> U32(65549)]
    /\ isComponent

\* C21: a "//" comment line is emitted at the base level plus one unit for
\* each continuation active at the line: one for an active tuple-alias
\* continuation and one for an active function-parameter continuation.
C21_CommentInContinuation ==
    [][pc = "loop" /\ pc' = "loop" /\ i <= Len(lines) /\ startsWith(trimmedLine(i), "//") =>
          emitted'[i].count =
              indentLevel + (IF inMultiLineTupleAlias /\ aliasGenericDepth > 0 THEN 1 ELSE 0)
                          + (IF inFuncParams THEN 1 ELSE 0)]_vars

\* The generic type constructors of WIT that take their arguments in <>.
GenericOpeners == {"tuple", "list", "option", "result", "future"}

\* t is a line "type <name> = ..." that ends with a generic opener whose
\* "<" is not matched on the line.
OpensGeneric(t) ==
    /\ startsWith(t, "type ")
    /\ includes(t, "=")
    /\ \E g \in GenericOpeners : endsWith(t, g \o "<")
    /\ CountChar(t, "<") > CountChar(t, ">")

\* C22: with the continuation off, a content line "type <name> = ..." that
\* ends with an unmatched "<" of a generic opener, tuple< or another one,
\* turns the continuation on, and the content line after it gets the
\* extra indent unit.
C22_GenericEntry ==
    [][pc = "loop" /\ pc' = "loop" /\ i <= Len(lines) /\ IsContent(trimmedLine(i)) =>
          /\ ~inMultiLineTupleAlias /\ OpensGeneric(trimmedLine(i)) =>
                 inMultiLineTupleAlias' /\ aliasGenericDepth' > 0
          /\ i = 2 /\ OpensGeneric(trimmedLine(1)) /\ ~startsWith(trimmedLine(i), ">") =>
                 emitted'[i].tuple = 1]_vars

C24_Independent ==
    [][pc = "loop" /\ pc' = "loop" /\ i <= Len(lines) /\ IsContent(trimmedLine(i)) =>
          LET t == trimmedLine(i)
              base == IF startsWith(t, "}") /\ indentLevel > 0
                      THEN indentLevel - 1 ELSE indentLevel
          IN  /\ inFuncParams' # inFuncParams =>
                    IF inFuncParams THEN startsWith(t, ")") ELSE endsWith(t, "func(")
              /\ <<inMultiLineTupleAlias', aliasGenericDepth'>>
                      # <<inMultiLineTupleAlias, aliasGenericDepth>> =>
                    inMultiLineTupleAlias \/ endsWith(t, "tuple<")
              /\ inMultiLineTupleAlias =>
                    aliasGenericDepth' = aliasGenericDepth + CountChar(t, "<") - CountChar(t, ">")
              /\ indentLevel' = base + (IF endsWith(t, "{") /\ ~includes(t, "}") THEN 1 ELSE 0)
              /\ emitted'[i].count = base + emitted'[i].tuple + emitted'[i].param
              /\ emitted'[i].tuple \in {0, 1} /\ emitted'[i].param \in {0, 1}
              /\ emitted'[i].param = 1 <=> inFuncParams /\ ~startsWith(t, ")")
              /\ emitted'[i].tuple = 1 <=>
                    inMultiLineTupleAlias /\ aliasGenericDepth > 0 /\ ~startsWith(t, ">>")
              /\ inFuncParams /\ inMultiLineTupleAlias /\ aliasGenericDepth > 0
                    /\ ~startsWith(t, ")") /\ ~startsWith(t, ">>") =>
                    emitted'[i].count = base + 2]_vars

C24_BothActiveWitness ==
    /\ edits.returned
    /\ document = "interface t{\nf:func(\ntype t=tuple<\nf:func("
    /\ emitted[4] = [count |-> 3, tuple |-> 1, param |-> 1]
    /\ inFuncParams /\ inMultiLineTupleAlias /\ indentLevel = 1

\* The construct kinds, in the order of the classification.
Kinds ==
    <<"Package", "NamedBlockOpener", "TypeDeclOpener", "TypeAlias", "FunctionDecl",
      "ImportExport", "Use", "FieldDecl", "Unrecognized">>

\* The pattern of each kind, taken alone.
MatchesKind(kind, t) ==
    CASE kind = "Package" -> startsWith(t, "package ")
      [] kind = "NamedBlockOpener" -> startsWith(t, "interface ") \/ startsWith(t, "world ")
      [] kind = "TypeDeclOpener" -> isTypeDecl(t)
      [] kind = "TypeAlias" -> startsWith(t, "type ") /\ includes(t, "=")
      [] kind = "FunctionDecl" -> isFuncDecl(t)
      [] kind = "ImportExport" -> startsWith(t, "import ") \/ startsWith(t, "export ")
      [] kind = "Use" -> startsWith(t, "use ")
      [] kind = "FieldDecl" -> isFieldDecl(t)
      [] OTHER -> TRUE

\* The rewrite rules of each kind.
RewriteAs(kind, t) ==
    CASE kind = "Package" -> formatPackage(t)
      [] kind \in {"NamedBlockOpener", "TypeDeclOpener"} -> formatNamedBlock(t)
      [] kind = "TypeAlias" -> formatTypeAlias(t)
      [] kind = "FunctionDecl" -> formatFunc(t)
      [] kind = "ImportExport" -> formatImportExport(t)
      [] kind = "Use" -> formatUse(t)
      [] kind = "FieldDecl" -> formatField(t)
      [] OTHER -> t

\* The first kind, in the order of Kinds, whose pattern t matches.
FirstKind(t) ==
    Kinds[CHOOSE k \in 1..Len(Kinds) :
              /\ MatchesKind(Kinds[k], t)
              /\ \A k2 \in 1..(k - 1) : ~MatchesKind(Kinds[k2], t)]

\* The kinds whose pattern t matches.
KindsOf(t) == {k \in 1..Len(Kinds) : MatchesKind(Kinds[k], t)}

\* C25: every content line is emitted as its indentation followed by the
\* rewrite of the first kind it matches in the order Package,
\* NamedBlockOpener, TypeDeclOpener, TypeAlias, FunctionDecl, ImportExport,
\* Use, FieldDecl, Unrecognized; a "type " line with "=" is rewritten as a
\* TypeAlias also when it has "->" or ": func", and an import or export
\* line never matches FunctionDecl.
C25_FirstMatchWins ==
    \A j \in 1..Len(out) :
        LET t == trimmedLine(j) IN
        IsContent(t) =>
            /\ out[j] = Repeat(indentUnit(options), emitted[j].count)
                            \o RewriteAs(FirstKind(t), t)
            /\ startsWith(t, "type ") /\ includes(t, "=") =>
                   out[j] = Repeat(indentUnit(options), emitted[j].count) \o formatTypeAlias(t)
            /\ startsWith(t, "import ") \/ startsWith(t, "export ") =>
                   /\ ~MatchesKind("FunctionDecl", t)
                   /\ out[j] = Repeat(indentUnit(options), emitted[j].count)
                                   \o formatImportExport(t)

C25_OverlapWitness ==
    /\ edits.returned
    /\ document = "type t=a->b"
    /\ Cardinality(KindsOf(document)) >= 3
    /\ formatFunc(document) # formatTypeAlias(document)
    /\ formatted = formatTypeAlias(document)

RECURSIVE TrackersAfter(_, _)
\* The trackers after the first j lines of ls, from the content lines
\* alone: a blank line and a "//" line are stepped over.
TrackersAfter(ls, j) ==
    IF j = 0
    THEN [indentLevel |-> 0, inMultiLineTupleAlias |-> FALSE,
          aliasGenericDepth |-> 0, inFuncParams |-> FALSE]
    ELSE LET before == TrackersAfter(ls, j - 1)
             t == trim(ls[j])
             level == closeBrace(t, before.indentLevel)
             alias == nextAlias(t, before.inMultiLineTupleAlias, before.aliasGenericDepth)
         IN  IF ~IsContent(t) THEN before
             ELSE [indentLevel |-> IF isOpeningBrace(t) THEN level + 1 ELSE level,
                   inMultiLineTupleAlias |-> alias[1],
                   aliasGenericDepth |-> alias[2],
                   inFuncParams |-> nextInFuncParams(t, before.inFuncParams, ls, j)]

\* C26: a step over a blank line or a "//" line changes none of
\* indentLevel, inMultiLineTupleAlias, aliasGenericDepth and inFuncParams,
\* whatever the comment holds; so at every line the trackers are what the
\* content lines before it alone make them, the blank and comment lines
\* counting only in the lookahead after a "func(" line.
C26_QuietLines ==
    [][pc = "loop" /\ pc' = "loop" /\ i <= Len(lines) =>
          /\ ~IsContent(trimmedLine(i)) =>
                 UNCHANGED <<indentLevel, inMultiLineTupleAlias, aliasGenericDepth,
                             inFuncParams>>
          /\ [indentLevel |-> indentLevel', inMultiLineTupleAlias |-> inMultiLineTupleAlias',
              aliasGenericDepth |-> aliasGenericDepth', inFuncParams |-> inFuncParams']
               = TrackersAfter(lines, i)]_vars

C26_CommentInAliasWitness ==
    /\ edits.returned
    /\ document = "type t=tuple<\n// }>)\n\n)"
    /\ inMultiLineTupleAlias /\ aliasGenericDepth = 1
    /\ emitted[4].tuple = 1

\* Line j takes part in the count of braces: every line, or only the
\* content lines.
Counts(j, all) == all \/ IsContent(trimmedLine(j))

\* Every "{" of line j is its last character, on a line with no "}", and
\* every "}" is its first character.
BracesAtEnds(j) ==
    LET t == trimmedLine(j) IN
    /\ includes(t, "{") => CountChar(t, "{") = 1 /\ endsWith(t, "{") /\ ~includes(t, "}")
    /\ includes(t, "}") => CountChar(t, "}") = 1 /\ startsWith(t, "}")

RECURSIVE BraceDepth(_, _)
\* The blocks open after line j.
BraceDepth(j, all) ==
    IF j = 0 THEN 0
    ELSE BraceDepth(j - 1, all)
            + (IF Counts(j, all) /\ endsWith(trimmedLine(j), "{") THEN 1 ELSE 0)
            - (IF Counts(j, all) /\ startsWith(trimmedLine(j), "}") THEN 1 ELSE 0)

\* The braces are at the ends of their lines and balanced, and no line
\* starts a continuation.
BalancedBlocks(all) ==
    /\ \A j \in 1..Len(lines) :
          /\ Counts(j, all) => BracesAtEnds(j)
          /\ BraceDepth(j, all) >= 0
          /\ ~endsWith(trimmedLine(j), "func(") /\ ~endsWith(trimmedLine(j), "tuple<")
    /\ BraceDepth(Len(lines), all) = 0

\* Line q closes the block that line p opens.
ClosesBlock(p, q, all) ==
    /\ p < q
    /\ Counts(p, all) /\ endsWith(trimmedLine(p), "{")
    /\ Counts(q, all) /\ startsWith(trimmedLine(q), "}")
    /\ BraceDepth(q, all) = BraceDepth(p - 1, all)
    /\ \A j \in p..(q - 1) : BraceDepth(j, all) > BraceDepth(p - 1, all)

\* In a document of balanced blocks every "}" line is as deep as the line
\* that opened its block, the lines between them (all of them, or those
\* with text) are deeper, and the base level ends at 0.
BlocksAligned(all, blanks) ==
    Returned /\ Len(lines) = Len(emitted) /\ BalancedBlocks(all) =>
        /\ indentLevel = 0
        /\ \A p, q \in 1..Len(lines) :
               ClosesBlock(p, q, all) =>
                   /\ emitted[q].count = emitted[p].count
                   /\ \A j \in (p + 1)..(q - 1) :
                          blanks \/ trimmedLine(j) # "" => emitted[j].count > emitted[p].count

\* C27 as it is stated: the braces of every line count, and every line
\* between an opener and its "}", blank lines too, is emitted deeper.
C27_BracesAlign == BlocksAligned(TRUE, TRUE)

\* C27 for the braces of content lines and the lines with text: each "}"
\* line is emitted as deep as the line that opened its block, every
\* content or comment line between them deeper, and indentLevel is 0 after
\* the last line; a blank line is emitted empty, and a brace in a comment
\* opens and closes nothing.
C27_ContentBracesAlign == BlocksAligned(FALSE, FALSE)

C27_NestedWitness ==
    /\ edits.returned
    /\ document = "interface t{\nrecord   r{\n}\n}"
    /\ BalancedBlocks(FALSE)
    /\ ClosesBlock(1, 4, FALSE) /\ ClosesBlock(2, 3, FALSE)
    /\ formatted = "interface t {\n  record r {\n  }\n}"

\* The line holds the ")" that closes a parameter list opened on a line
\* before it: it has a ")" with no "(" of its own.
ClosesList(t) == CountChar(t, ")") > CountChar(t, "(")

\* C28: with the parameter continuation on, the content line that holds
\* the ")" closing the list, at its start or after the last parameter,
\* turns the continuation off; and with it off, a line that does not end
\* with "func(" leaves it off and is emitted without the parameter extra.
C28_ListCloses ==
    [][pc = "loop" /\ pc' = "loop" /\ i <= Len(lines) /\ IsContent(trimmedLine(i)) =>
          /\ inFuncParams /\ ClosesList(trimmedLine(i)) => ~inFuncParams'
          /\ ~inFuncParams /\ ~endsWith(trimmedLine(i), "func(") =>
                 ~inFuncParams' /\ emitted'[i].param = 0]_vars

\* C29: when the promise of a helper that creates an instance for its own
\* use has settled, resolved or rejected, free() was called exactly once
\* on the instance; it is never called twice.
C29_InstanceFreed ==
    \A k \in DOMAIN helperCalls :
        LET call == helperCalls[k] IN
        call.helper \in OwnInstanceHelpers =>
            /\ call.frees <= call.created
            /\ call.pc = "done" /\ call.created = 1 => call.frees = 1

\* C30: module.default is invoked only while wasmModule is null and no
\* other invocation of it is awaited, so at most once for an
\* initialization that succeeds; wasmModule, once set, stays set; a call
\* of initializeWasm made with the module set returns at once; and a
\* failed initialization rejects and does not set wasmModule.
C30_SingleInitialization ==
    [][/\ wasmModule => wasmModule'
       /\ defaultInvocations' # defaultInvocations =>
             /\ ~wasmModule
             /\ \A k \in DOMAIN helperCalls : helperCalls[k].pc # "default"
       /\ wasmModule /\ Len(helperCalls') > Len(helperCalls) =>
             helperCalls'[Len(helperCalls')].pc \in {"ready", "done"}
       /\ \A k \in DOMAIN helperCalls :
             helperCalls[k].pc \in {"import", "default"}
               /\ helperCalls'[k].outcome = "rejected" => wasmModule' = wasmModule]_vars

====
